---- MODULE Spec2Model ----
(***************************************************************************)
(* A model of src/detect_bounding_box.py: the three public functions       *)
(* get_average_font_size, add_text_to_pdf and detect_bounding_box, the     *)
(* document handles they open and close, the greedy line wrap, the         *)
(* placement arithmetic and the draw loop.                                 *)
(*                                                                         *)
(* Strings are sequences of one-character strings.  Python floats are      *)
(* modelled by exact rationals: a font size is a record [num, den] (the    *)
(* average sum(sizes)/len(sizes) is kept as that fraction) and every       *)
(* length of a call is an integer number of sub-units, 1/(10*den) of a     *)
(* page unit, so that font_size*0.5, *1.2 and *1.5 are exact.              *)
(***************************************************************************)
EXTENDS Integers, Sequences, FiniteSets, TLC

\* ------------------------------------------------------------------ bounds

\* Longest text argument, in characters.
MaxTextLen == 5
\* Most blocks on the page of the document.
MaxBlocks == 2

\* ------------------------------------------------------- program constants

\* margin = 10 (lines 45 and 142).
margin == 10
\* "Default to 12 if no text is found" (line 28).
DefaultFontSize == 12

\* ------------------------------------------------------------ input spaces

Chars == {"a", " "}

Texts == UNION {[1..n -> Chars] : n \in 0..MaxTextLen}

Locations == {"top", "bottom", "left"}

Rat(n) == [num |-> n, den |-> 1]

\* Optional[float]: <<>> is None, <<r>> is the float r.
FontSizeArgs == {<<>>, <<Rat(0)>>, <<Rat(4)>>}

\* Page rectangles <<width, height>> in page units.
PageRects == {<<15, 30>>, <<30, 200>>}

\* One block of the page, as both get_text("dict") and get_text("blocks")
\* report it: type 0 is a text block (with the size of its first span),
\* type 1 an image block, whose "blocks" text is an "<image: ...>" tag.
BlockChoices ==
    { [type |-> 0, y1 |-> 90,  text |-> <<"a">>, size |-> 12],
      [type |-> 0, y1 |-> 140, text |-> <<" ">>, size |-> 6],
      [type |-> 1, y1 |-> 170, text |-> <<"a">>, size |-> 0] }

Pages == UNION {[1..n -> BlockChoices] : n \in 0..MaxBlocks}

\* ------------------------------------------------------------ str methods

IsSpace(c) == c = " "

RECURSIVE LStrip(_)
LStrip(s) ==
    IF s = <<>> THEN s
    ELSE IF IsSpace(Head(s)) THEN LStrip(Tail(s)) ELSE s

RECURSIVE RStrip(_)
RStrip(s) ==
    IF s = <<>> THEN s
    ELSE IF IsSpace(s[Len(s)]) THEN RStrip(SubSeq(s, 1, Len(s) - 1)) ELSE s

\* str.strip()
Strip(s) == RStrip(LStrip(s))

RECURSIVE SplitAcc(_, _, _)
SplitAcc(s, cur, out) ==
    IF s = <<>>
    THEN IF cur = <<>> THEN out ELSE Append(out, cur)
    ELSE IF IsSpace(Head(s))
         THEN SplitAcc(Tail(s), <<>>, IF cur = <<>> THEN out ELSE Append(out, cur))
         ELSE SplitAcc(Tail(s), Append(cur, Head(s)), out)

\* str.split(): the maximal runs of non-whitespace characters, in order.
Split(s) == SplitAcc(s, <<>>, <<>>)

Max(a, b) == IF a >= b THEN a ELSE b
Min(a, b) == IF a <= b THEN a ELSE b

\* Sub-units per page unit in a call whose font size is fs.
Unit(fs) == 10 * fs.den

\* ------------------------------------------------------------------ state

VARIABLES
    pc,         \* position of the running call
    fn,         \* the top-level function called
    caller,     \* who called get_average_font_size: "none" is the top level
    doc,        \* the document at pdf_path: [width, height, blocks]
    text,       \* argument text
    location,   \* argument location
    font_size,  \* argument / local font_size: <<>> is None
    handles,    \* every fitz.open() so far: [open, closes]
    avg,        \* value get_average_font_size is about to return
    lay,        \* locals of detect_bounding_box after the layout
    current_y,  \* draw loop: current_y
    idx,        \* draw loop: index of the next line
    drawn,      \* draw_rect / insert_text calls executed on the open document
    saved,      \* doc.save() calls executed: the contents written
    err,        \* the exception propagating, "none" if none
    ret         \* <<v>> once the top-level call returned v

vars == <<pc, fn, caller, doc, text, location, font_size, handles, avg, lay,
          current_y, idx, drawn, saved, err, ret>>

NoLay == [laid |-> FALSE]

Init ==
    /\ pc = "idle"
    /\ fn = "none"
    /\ caller = "none"
    /\ \E r \in PageRects, b \in Pages :
           doc = [width |-> r[1], height |-> r[2], blocks |-> b]
    /\ text = <<>>
    /\ location = "top"
    /\ font_size = <<>>
    /\ handles = <<>>
    /\ avg = <<>>
    /\ lay = NoLay
    /\ current_y = 0
    /\ idx = 0
    /\ drawn = <<>>
    /\ saved = <<>>
    /\ err = "none"
    /\ ret = <<>>

\* fitz.open(pdf_path)
Open(hs) == Append(hs, [open |-> TRUE, closes |-> 0])

\* doc.close() on the i-th handle
Close(hs, i) == [hs EXCEPT ![i] = [open |-> FALSE, closes |-> @.closes + 1]]

\* ------------------------------------------------- get_average_font_size

RECURSIVE SumSeq(_)
SumSeq(q) == IF q = <<>> THEN 0 ELSE Head(q) + SumSeq(Tail(q))

\* sizes = [block['lines'][0]['spans'][0]['size'] for block in ... if block['type'] == 0]
RECURSIVE Sizes(_)
Sizes(blocks) ==
    IF blocks = <<>> THEN <<>>
    ELSE IF Head(blocks).type = 0
         THEN <<Head(blocks).size>> \o Sizes(Tail(blocks))
         ELSE Sizes(Tail(blocks))

\* return sum(sizes) / len(sizes) if sizes else 12
AverageFontSize(blocks) ==
    LET sizes == Sizes(blocks)
    IN  IF sizes # <<>>
        THEN [num |-> SumSeq(sizes), den |-> Len(sizes)]
        ELSE Rat(DefaultFontSize)

\* ------------------------------------------------ calculate_bounding_box

\* The box in sub-units of font_size, or the ValueError of line 53.
calculate_bounding_box(page_width, page_height, fs, loc) ==
    LET u == Unit(fs)
        box_height == fs.num * 15           \* font_size * 1.5
    IN  IF loc = "top"
        THEN [raised |-> FALSE,
              box |-> <<margin * u, margin * u,
                        (page_width - margin) * u, margin * u + box_height>>]
        ELSE IF loc = "bottom"
        THEN [raised |-> FALSE,
              box |-> <<margin * u, page_height * u - box_height - margin * u,
                        (page_width - margin) * u, (page_height - margin) * u>>]
        ELSE [raised |-> TRUE, box |-> <<>>]

\* --------------------------------------------- calculate_text_dimensions

\* <<text_width, text_height>> in sub-units of font_size.
calculate_text_dimensions(s, fs) ==
    LET char_width == fs.num * 5            \* font_size * 0.5
        text_width == Len(s) * char_width
        text_height == fs.num * 12          \* font_size * 1.2
    IN  <<text_width, text_height>>

\* --------------------------------------- detect_bounding_box: the layout

\* Lines 132-138: the loop over text_blocks, from lowest_y1 = 0.
RECURSIVE LowestY1(_, _, _)
LowestY1(text_blocks, txt, lowest_y1) ==
    IF text_blocks = <<>> THEN lowest_y1
    ELSE LET block == Head(text_blocks)
             next == IF Strip(block.text) # <<>> /\ txt # <<>>
                     THEN IF block.y1 > lowest_y1 THEN block.y1 ELSE lowest_y1
                     ELSE lowest_y1
         IN  LowestY1(Tail(text_blocks), txt, next)

\* The wrap's locals before the loop (lines 147-149); rejected counts the
\* passes through the else branch.
WrapInit == [lines |-> <<>>, current_line |-> <<>>, max_line_width |-> 0,
             rejected |-> 0]

\* WrapWord with the test made on the word instead of the candidate line.
WrapWord_MeasuresWord(st, word, fs, box_width) ==
    LET test_line == Strip(st.current_line \o <<" ">> \o word)
        test_width == calculate_text_dimensions(test_line, fs)[1]
        mx == Max(st.max_line_width, test_width)
    IN  IF calculate_text_dimensions(word, fs)[1] <= box_width
        THEN [st EXCEPT !.current_line = test_line, !.max_line_width = mx]
        ELSE [st EXCEPT !.lines = Append(@, st.current_line),
                        !.current_line = word,
                        !.max_line_width = mx,
                        !.rejected = @ + 1]

\* WrapWord whose else branch forgets lines.append(current_line).
WrapWord_DropsLine(st, word, fs, box_width) ==
    LET test_line == Strip(st.current_line \o <<" ">> \o word)
        test_width == calculate_text_dimensions(test_line, fs)[1]
        mx == Max(st.max_line_width, test_width)
    IN  IF test_width <= box_width
        THEN [st EXCEPT !.current_line = test_line, !.max_line_width = mx]
        ELSE [st EXCEPT !.current_line = word,
                        !.max_line_width = mx,
                        !.rejected = @ + 1]

\* WrapWord with max_line_width taken over the lines kept, not over the
\* candidates: a rejected candidate counts as the word that starts the
\* next line.
WrapWord_EmittedWidth(st, word, fs, box_width) ==
    LET test_line == Strip(st.current_line \o <<" ">> \o word)
        test_width == calculate_text_dimensions(test_line, fs)[1]
        word_width == calculate_text_dimensions(word, fs)[1]
    IN  IF test_width <= box_width
        THEN [st EXCEPT !.current_line = test_line,
                        !.max_line_width = Max(@, test_width)]
        ELSE [st EXCEPT !.lines = Append(@, st.current_line),
                        !.current_line = word,
                        !.max_line_width = Max(@, word_width),
                        !.rejected = @ + 1]

\* One pass of the loop body, lines 151-158.
WrapWord(st, word, fs, box_width) ==
    LET test_line == Strip(st.current_line \o <<" ">> \o word)
        test_width == calculate_text_dimensions(test_line, fs)[1]
        mx == Max(st.max_line_width, test_width)
    IN  IF test_width <= box_width
        THEN [st EXCEPT !.current_line = test_line, !.max_line_width = mx]
        ELSE [st EXCEPT !.lines = Append(@, st.current_line),
                        !.current_line = word,
                        !.max_line_width = mx,
                        !.rejected = @ + 1]

RECURSIVE WrapLoop(_, _, _, _)
WrapLoop(st, words, fs, box_width) ==
    IF words = <<>> THEN st
    ELSE WrapLoop(WrapWord(st, Head(words), fs, box_width), Tail(words),
                  fs, box_width)

\* Lines 146-162: the loop, then "if current_line: lines.append(current_line)".
Wrap(txt, fs, box_width) ==
    LET st == WrapLoop(WrapInit, Split(txt), fs, box_width)
    IN  IF st.current_line # <<>>
        THEN [st EXCEPT !.lines = Append(@, st.current_line)]
        ELSE st

\* BoxHeight with the text height of calculate_text_dimensions, 1.2, for
\* the line height.
BoxHeight_TextHeight(fs, lines) == fs.num * 12 * Len(lines)

\* Line 165: box_height = font_size * 1.5 * len(lines)
BoxHeight(fs, lines) == fs.num * 15 * Len(lines)

\* Line 183: the first line's position below y0, font_size * 1.2
FirstLineOffset(fs) == fs.num * 12

\* Line 193: current_y += font_size * 1.5
LineStep(fs) == fs.num * 15

\* Lines 131-176 on a page that has text blocks: every local the rest of
\* the function reads.  The box is computed only for a valid location.
Layout(d, txt, fs, loc) ==
    LET u == Unit(fs)
        lowest_y1 == LowestY1(d.blocks, txt, 0)
        box_width == (d.width - 2 * margin) * u
        w == Wrap(txt, fs, box_width)
        box_height == BoxHeight(fs, w.lines)
        valid == loc \in {"top", "bottom"}
        x0 == margin * u
        y0 == IF loc = "top" THEN margin * u ELSE (lowest_y1 + margin) * u
        x1 == Min(x0 + w.max_line_width, (d.width - margin) * u)
        y1 == y0 + box_height
    IN  [laid |-> TRUE, lowest_y1 |-> lowest_y1, box_width |-> box_width,
         lines |-> w.lines, max_line_width |-> w.max_line_width,
         rejected |-> w.rejected, box_height |-> box_height,
         valid |-> valid,
         box |-> IF valid THEN <<x0, y0, x1, y1>> ELSE <<>>]

\* ---------------------------------------------------------------- actions

\* Every call into the library (fitz.open, doc[n], get_text, draw_rect,
\* insert_text, save) either succeeds or raises; Outcomes is that choice.
Outcomes == {"ok", "raise"}

\* get_average_font_size(pdf_path) called from the top level.
CallGetAverageFontSize ==
    /\ pc = "idle"
    /\ fn' = "get_average_font_size"
    /\ caller' = "none"
    /\ pc' = "g_open"
    /\ UNCHANGED <<doc, text, location, font_size, handles, avg, lay,
                   current_y, idx, drawn, saved, err, ret>>

\* add_text_to_pdf(pdf_path, output_path, text, location, font_size):
\* line 68, doc = fitz.open(pdf_path), before the try.
CallAddTextToPdf ==
    /\ pc = "idle"
    /\ \E t \in Texts, loc \in Locations, f \in FontSizeArgs, o \in Outcomes :
          /\ fn' = "add_text_to_pdf"
          /\ text' = t
          /\ location' = loc
          /\ font_size' = f
          /\ IF o = "ok"
             THEN /\ handles' = Open(handles)
                  /\ pc' = "a_page"
                  /\ err' = err
             ELSE /\ handles' = handles
                  /\ pc' = "done"
                  /\ err' = "LibraryError"
    /\ UNCHANGED <<caller, doc, avg, lay, current_y, idx, drawn, saved, ret>>

\* detect_bounding_box(pdf_path, text, location, page_num, threshold,
\* font_size): line 120, doc = fitz.open(pdf_path), before the try.
CallDetectBoundingBox ==
    /\ pc = "idle"
    /\ \E t \in Texts, loc \in Locations, f \in FontSizeArgs, o \in Outcomes :
          /\ fn' = "detect_bounding_box"
          /\ text' = t
          /\ location' = loc
          /\ font_size' = f
          /\ IF o = "ok"
             THEN /\ handles' = Open(handles)
                  /\ pc' = "d_page"
                  /\ err' = err
             ELSE /\ handles' = handles
                  /\ pc' = "done"
                  /\ err' = "LibraryError"
    /\ UNCHANGED <<caller, doc, avg, lay, current_y, idx, drawn, saved, ret>>

\* Where an exception leaving get_average_font_size lands in its caller:
\* the caller's finally clause, or the top level.
CallerFinally(c) ==
    IF c = "detect_bounding_box" THEN "d_finally"
    ELSE IF c = "add_text_to_pdf" THEN "a_finally"
    ELSE "done"

\* Where a normal return of get_average_font_size continues.
CallerResume(c) ==
    IF c = "detect_bounding_box" THEN "d_layout"
    ELSE IF c = "add_text_to_pdf" THEN "a_insert"
    ELSE "done"

\* Line 23: doc = fitz.open(pdf_path), before the try.
GetAvgOpen ==
    /\ pc = "g_open"
    /\ \E o \in Outcomes :
          IF o = "ok"
          THEN /\ handles' = Open(handles)
               /\ pc' = "g_body"
               /\ err' = err
          ELSE /\ handles' = handles
               /\ pc' = CallerFinally(caller)
               /\ err' = "LibraryError"
    /\ UNCHANGED <<fn, caller, doc, text, location, font_size, avg, lay,
                   current_y, idx, drawn, saved, ret>>

\* Lines 25-28: the try body.
GetAvgBody ==
    /\ pc = "g_body"
    /\ \E o \in Outcomes :
          IF o = "ok"
          THEN /\ avg' = <<AverageFontSize(doc.blocks)>>
               /\ err' = err
          ELSE /\ avg' = avg
               /\ err' = "LibraryError"
    /\ pc' = "g_finally"
    /\ UNCHANGED <<fn, caller, doc, text, location, font_size, handles, lay,
                   current_y, idx, drawn, saved, ret>>

\* GetAvgFinally without the try/finally: doc.close() only after a body
\* that did not raise.
GetAvgFinally_NoFinally ==
    /\ pc = "g_finally"
    /\ handles' = IF err = "none" THEN Close(handles, Len(handles)) ELSE handles
    /\ IF err # "none"
       THEN /\ pc' = CallerFinally(caller)
            /\ UNCHANGED <<font_size, ret>>
       ELSE /\ pc' = CallerResume(caller)
            /\ IF caller = "none"
               THEN ret' = avg /\ font_size' = font_size
               ELSE font_size' = avg /\ ret' = ret
    /\ UNCHANGED <<fn, caller, doc, text, location, avg, lay, current_y, idx,
                   drawn, saved, err>>

\* Lines 29-30: finally: doc.close(); then the return or the exception
\* reaches the caller.
GetAvgFinally ==
    /\ pc = "g_finally"
    /\ handles' = Close(handles, Len(handles))
    /\ IF err # "none"
       THEN /\ pc' = CallerFinally(caller)
            /\ UNCHANGED <<font_size, ret>>
       ELSE /\ pc' = CallerResume(caller)
            /\ IF caller = "none"
               THEN ret' = avg /\ font_size' = font_size
               ELSE font_size' = avg /\ ret' = ret
    /\ UNCHANGED <<fn, caller, doc, text, location, avg, lay, current_y, idx,
                   drawn, saved, err>>

\* Lines 70-72: page = doc[0]; if font_size is None: get_average_font_size.
AddPage ==
    /\ pc = "a_page"
    /\ \E o \in Outcomes :
          IF o = "raise"
          THEN /\ err' = "LibraryError"
               /\ pc' = "a_finally"
               /\ caller' = caller
          ELSE /\ err' = err
               /\ IF font_size = <<>>
                  THEN pc' = "g_open" /\ caller' = "add_text_to_pdf"
                  ELSE pc' = "a_insert" /\ caller' = caller
    /\ UNCHANGED <<fn, doc, text, location, font_size, handles, avg, lay,
                   current_y, idx, drawn, saved, ret>>

\* Lines 73-80: bbox = calculate_bounding_box(...); page.insert_text(...).
AddInsert ==
    /\ pc = "a_insert"
    /\ LET fs == font_size[1]
           bbox == calculate_bounding_box(doc.width, doc.height, fs, location)
       IN  IF bbox.raised
           THEN /\ err' = "InvalidLocation"
                /\ pc' = "a_finally"
                /\ UNCHANGED <<lay, drawn>>
           ELSE /\ lay' = [laid |-> TRUE, box |-> bbox.box]
                /\ \E o \in Outcomes :
                      IF o = "ok"
                      THEN /\ drawn' = Append(drawn,
                                  [op |-> "insert_text", x |-> bbox.box[1],
                                   y |-> bbox.box[2], line |-> text])
                           /\ pc' = "a_save"
                           /\ err' = err
                      ELSE /\ drawn' = drawn
                           /\ pc' = "a_finally"
                           /\ err' = "LibraryError"
    /\ UNCHANGED <<fn, caller, doc, text, location, font_size, handles, avg,
                   current_y, idx, saved, ret>>

\* Line 81: doc.save(output_path); the function then returns None.
AddSave ==
    /\ pc = "a_save"
    /\ \E o \in Outcomes :
          IF o = "ok"
          THEN /\ saved' = Append(saved, drawn)
               /\ ret' = <<"None">>
               /\ err' = err
          ELSE /\ saved' = saved
               /\ ret' = ret
               /\ err' = "LibraryError"
    /\ pc' = "a_finally"
    /\ UNCHANGED <<fn, caller, doc, text, location, font_size, handles, avg,
                   lay, current_y, idx, drawn>>

\* Lines 82-83: finally: doc.close().
AddFinally ==
    /\ pc = "a_finally"
    /\ handles' = Close(handles, 1)
    /\ pc' = "done"
    /\ UNCHANGED <<fn, caller, doc, text, location, font_size, avg, lay,
                   current_y, idx, drawn, saved, err, ret>>

\* Lines 122-124: page = doc[page_num]; if font_size is None:
\* get_average_font_size(pdf_path, page_num).
DetectPage ==
    /\ pc = "d_page"
    /\ \E o \in Outcomes :
          IF o = "raise"
          THEN /\ err' = "LibraryError"
               /\ pc' = "d_finally"
               /\ caller' = caller
          ELSE /\ err' = err
               /\ IF font_size = <<>>
                  THEN pc' = "g_open" /\ caller' = "detect_bounding_box"
                  ELSE pc' = "d_layout" /\ caller' = caller
    /\ UNCHANGED <<fn, doc, text, location, font_size, handles, avg, lay,
                   current_y, idx, drawn, saved, ret>>

\* Lines 127-176: text_blocks = page.get_text("blocks"), the no-text-blocks
\* check, the scan for lowest_y1, the wrap, and the position of the box with
\* its check of location.
DetectLayout ==
    /\ pc = "d_layout"
    /\ \E o \in Outcomes :
          IF o = "raise"
          THEN /\ err' = "LibraryError"
               /\ pc' = "d_finally"
               /\ lay' = lay
          ELSE IF doc.blocks = <<>>
          THEN /\ err' = "NoTextBlocks"
               /\ pc' = "d_finally"
               /\ lay' = lay
          ELSE LET l == Layout(doc, text, font_size[1], location)
               IN  /\ lay' = l
                   /\ IF l.valid
                      THEN pc' = "d_rect" /\ err' = err
                      ELSE pc' = "d_finally" /\ err' = "InvalidLocation"
    /\ UNCHANGED <<fn, caller, doc, text, location, font_size, handles, avg,
                   current_y, idx, drawn, saved, ret>>

\* Lines 179-183: page.draw_rect(rect, ...); current_y = y0 + font_size * 1.2.
DetectDrawRect ==
    /\ pc = "d_rect"
    /\ \E o \in Outcomes :
          IF o = "ok"
          THEN /\ drawn' = Append(drawn, [op |-> "draw_rect", rect |-> lay.box])
               /\ current_y' = lay.box[2] + FirstLineOffset(font_size[1])
               /\ idx' = 1
               /\ pc' = "d_text"
               /\ err' = err
          ELSE /\ UNCHANGED <<drawn, current_y, idx>>
               /\ pc' = "d_finally"
               /\ err' = "LibraryError"
    /\ UNCHANGED <<fn, caller, doc, text, location, font_size, handles, avg,
                   lay, saved, ret>>

\* Lines 184-193: one pass of "for line in lines", or the end of the loop
\* (lines exhausted, or the break of line 186).
DetectDrawText ==
    /\ pc = "d_text"
    /\ IF idx > Len(lay.lines) \/ current_y > lay.box[4]
       THEN /\ pc' = "d_save"
            /\ UNCHANGED <<drawn, current_y, idx, err>>
       ELSE \E o \in Outcomes :
               IF o = "ok"
               THEN /\ drawn' = Append(drawn,
                           [op |-> "insert_text", x |-> lay.box[1],
                            y |-> current_y, line |-> lay.lines[idx]])
                    /\ current_y' = current_y + LineStep(font_size[1])
                    /\ idx' = idx + 1
                    /\ pc' = "d_text"
                    /\ err' = err
               ELSE /\ UNCHANGED <<drawn, current_y, idx>>
                    /\ pc' = "d_finally"
                    /\ err' = "LibraryError"
    /\ UNCHANGED <<fn, caller, doc, text, location, font_size, handles, avg,
                   lay, saved, ret>>

\* Lines 196-197: doc.save("modified_document.pdf"); return (x0, y0, x1, y1).
DetectSave ==
    /\ pc = "d_save"
    /\ \E o \in Outcomes :
          IF o = "ok"
          THEN /\ saved' = Append(saved, drawn)
               /\ ret' = <<lay.box>>
               /\ err' = err
          ELSE /\ saved' = saved
               /\ ret' = ret
               /\ err' = "LibraryError"
    /\ pc' = "d_finally"
    /\ UNCHANGED <<fn, caller, doc, text, location, font_size, handles, avg,
                   lay, current_y, idx, drawn>>

\* Lines 199-200: finally: doc.close().
DetectFinally ==
    /\ pc = "d_finally"
    /\ handles' = Close(handles, 1)
    /\ pc' = "done"
    /\ UNCHANGED <<fn, caller, doc, text, location, font_size, avg, lay,
                   current_y, idx, drawn, saved, err, ret>>

Next ==
    \/ CallGetAverageFontSize
    \/ CallAddTextToPdf
    \/ CallDetectBoundingBox
    \/ GetAvgOpen
    \/ GetAvgBody
    \/ GetAvgFinally
    \/ AddPage
    \/ AddInsert
    \/ AddSave
    \/ AddFinally
    \/ DetectPage
    \/ DetectLayout
    \/ DetectDrawRect
    \/ DetectDrawText
    \/ DetectSave
    \/ DetectFinally

Spec == Init /\ [][Next]_vars

\* ----------------------------------------------------------------- claims

\* The font size in effect once it is no longer None.
fs_now == font_size[1]

\* The layout of a detect_bounding_box call has been computed.
Laid == fn = "detect_bounding_box" /\ lay.laid

\* The top-level call has ended, by a return or by an exception.
Ended == pc = "done"

\* The top-level call returned normally.
Returned == pc = "done" /\ err = "none"

Width(s) == calculate_text_dimensions(s, fs_now)[1]

\* C1: a single word wider than the maximum line width is wrapped to
\* exactly one line, the word itself, with no empty line beside it (stated
\* for a page wider than its two margins and a font size above 0).
C1_SingleWideWordIsOneLine ==
    (Laid /\ Len(Split(text)) = 1 /\ Width(Split(text)[1]) > lay.box_width
          /\ lay.box_width > 0 /\ fs_now.num > 0)
        => lay.lines = <<Split(text)[1]>>

\* C2: when every word of the text is at most the maximum line width wide,
\* so is every line the wrap emits.
C2_LinesFit ==
    (Laid /\ \A i \in DOMAIN Split(text) : Width(Split(text)[i]) <= lay.box_width)
        => \A j \in DOMAIN lay.lines : Width(lay.lines[j]) <= lay.box_width

\* C2's case: words that all fit, wrapped to several lines, one of them of
\* more than one word.
C2_Witness ==
    /\ Laid
    /\ fs_now.num > 0
    /\ \A i \in DOMAIN Split(text) : Width(Split(text)[i]) <= lay.box_width
    /\ Len(lay.lines) >= 2
    /\ \E j \in DOMAIN lay.lines : Len(Split(lay.lines[j])) >= 2

\* C3: location "top" yields a box with x0 = y0 = margin on every page, for
\* detect_bounding_box and for calculate_bounding_box (add_text_to_pdf).
C3_TopBoxAtMargin ==
    (Ended /\ fn \in {"detect_bounding_box", "add_text_to_pdf"}
           /\ location = "top" /\ err # "LibraryError")
        => /\ err = "none"
           /\ lay.laid
           /\ lay.box[1] = margin * Unit(fs_now)
           /\ lay.box[2] = margin * Unit(fs_now)

\* The largest y1 among the blocks whose text is not blank, 0 if there is none.
MaxNonBlankY1(blocks) ==
    LET ys == {blocks[i].y1 : i \in {j \in DOMAIN blocks : Strip(blocks[j].text) # <<>>}}
    IN  IF ys = {} THEN 0 ELSE CHOOSE m \in ys : \A y \in ys : y <= m

\* C4: for location "bottom" on a page with a text block, the returned y0 is
\* margin + B, B the largest y1 of a non-blank block, whatever the text is.
C4_BottomBelowLowestText ==
    (Returned /\ fn = "detect_bounding_box" /\ location = "bottom"
              /\ doc.blocks # <<>>)
        => ret[1][2] = (margin + MaxNonBlankY1(doc.blocks)) * Unit(fs_now)

\* C5: an invalid location ends detect_bounding_box and add_text_to_pdf with
\* the invalid-location error, and nothing was drawn, inserted or saved.
C5_InvalidLocationSignalled ==
    (Ended /\ fn \in {"detect_bounding_box", "add_text_to_pdf"}
           /\ location \notin {"top", "bottom"} /\ err # "LibraryError")
        => /\ err = "InvalidLocation"
           /\ drawn = <<>>
           /\ saved = <<>>

\* The call of get_average_font_size made by another function is running.
InNestedCall == pc \in {"g_open", "g_body", "g_finally"}

\* C6: every handle opened is closed exactly once: none is closed twice,
\* the handle of the nested get_average_font_size call is closed when that
\* call has left, and none is open when the top-level call has ended,
\* whichever way it ended.
C6_HandlesReleased ==
    /\ \A i \in DOMAIN handles :
          /\ handles[i].closes <= 1
          /\ handles[i].open <=> handles[i].closes = 0
    /\ (caller # "none" /\ ~InNestedCall /\ Len(handles) >= 2)
          => ~handles[2].open
    /\ Ended => \A i \in DOMAIN handles : ~handles[i].open

\* C6's case: a call that opened two handles and ended by an exception.
C6_Witness ==
    /\ Ended
    /\ Len(handles) = 2
    /\ err # "none"

\* C7: a returned box has x0 <= x1 and y0 <= y1.
C7_BoxOrdered ==
    (Returned /\ fn \in {"detect_bounding_box", "add_text_to_pdf"})
        => /\ lay.box[1] <= lay.box[3]
           /\ lay.box[2] <= lay.box[4]

\* The words of the lines, in line order.
RECURSIVE WordsOf(_)
WordsOf(lines) ==
    IF lines = <<>> THEN <<>> ELSE Split(Head(lines)) \o WordsOf(Tail(lines))

\* C8: the words of the emitted lines, in line order, are the words of the
\* text; a text without words gives no line and a box of height 0.
C8_WrapKeepsWords ==
    Laid => /\ WordsOf(lay.lines) = Split(text)
            /\ Split(text) = <<>> => (lay.lines = <<>> /\ lay.box_height = 0)

\* C8's case: two different words wrapped to different lines.
C8_Witness ==
    /\ Laid
    /\ Len(Split(text)) >= 2
    /\ Split(text)[1] # Split(text)[2]
    /\ Len(lay.lines) >= 2
    /\ fs_now.num > 0

\* The right edge the clamp of line 175 allows, page width - margin.
RightEdge == (doc.width - margin) * Unit(fs_now)

\* C9: once the wrap rejected a candidate line the returned x1 is exactly
\* page width - margin; x1 is smaller only when no candidate was rejected
\* and the text is at most one line.
C9_RejectionPinsRightEdge ==
    (Returned /\ fn = "detect_bounding_box")
        => /\ lay.rejected >= 1 => ret[1][3] = RightEdge
           /\ ret[1][3] < RightEdge => (lay.rejected = 0 /\ Len(lay.lines) <= 1)

\* C9's case: a rejected candidate, and every emitted line narrower than the
\* maximum line width.
C9_Witness ==
    /\ Returned
    /\ fn = "detect_bounding_box"
    /\ lay.rejected >= 1
    /\ lay.box_width > 0
    /\ \A j \in DOMAIN lay.lines : Width(lay.lines[j]) < lay.box_width

====
